---- MODULE Spec2Model ----
(***************************************************************************)
(* The vue-webrtc component (src/src/lib-components/vue-webrtc.vue) as a   *)
(* state machine.  Every client of Clients is one mounted instance of the  *)
(* component.  The browser (getUserMedia, RTCPeerConnection), the          *)
(* socket.io transport and the signaling relay are the environment: their  *)
(* completions and messages are the nondeterministic steps.                *)
(*                                                                         *)
(* JavaScript runs one callback at a time to its next await, so every      *)
(* action below is one such run: a method call up to its first await, the  *)
(* resumption of an await, or the dispatch of one socket / peer event to   *)
(* all the listeners registered for it.                                    *)
(***************************************************************************)
EXTENDS Integers, Sequences, FiniteSets, Bags, TLC

\* ---------------------------------------------------------------- bounds
MaxJoins == 2      \* calls of joinRoom per instance (the first is onMounted's)
MaxLeaves == 1     \* calls of leaveRoom per instance
MaxRecv == 2       \* signaling messages the environment sends to one instance
MaxPeers == 1      \* length of the peer list of one discover message
MaxPCs == 2        \* RTCPeerConnection objects one instance creates
MaxTracks == 1     \* track events one RTCPeerConnection fires
MaxShares == 1     \* calls of shareScreen per instance
MaxFew == 2        \* messages to one instance while its methods are called
MaxPush == 1       \* unsolicited messages the relay sends to one instance

\* ------------------------------------------------------------ identities
Clients == {"p1", "p2"}          \* the component instances
Remote == {"r1", "r2"}           \* peers that are not instances of this code
null == <<"null", 0>>            \* JavaScript null / undefined
NullToken == "<null>"            \* props.jwtToken left at its default, null
ErrorArg == <<"error", 0>>       \* the Error object an error event carries
RoomId == <<"abc123", 0>>        \* props.roomId

\* The identity the relay issues to the n-th socket an instance opens.
SocketId(c, n) == <<c, n>>
RemoteId(r) == <<r, 1>>
RemoteIds == {RemoteId(r) : r \in Remote}

\* Lexicographic order of the identities.
NameRank(name) == CASE name = "p1" -> 1 [] name = "p2" -> 2
                    [] name = "r1" -> 3 [] name = "r2" -> 4 [] OTHER -> 0
Less(a, b) == \/ NameRank(a[1]) < NameRank(b[1])
              \/ NameRank(a[1]) = NameRank(b[1]) /\ a[2] < b[2]

\* A MediaStream object: its id and where it came from.  Two streams with
\* the same id and different origins are different objects.
CameraStream(j) == [id |-> <<"cam", j>>, origin |-> "camera"]
ScreenStream(n) == [id |-> <<"scr", n>>, origin |-> "screen"]
RemoteStream(sid) == [id |-> sid, origin |-> "remote"]
\* The stream ids a remote description can announce: the remote side picks
\* them, so one may equal the id of a local stream.
RemoteStreamIds == {<<"rs", 1>>, <<"cam", 1>>}

VARIABLES
  jwtToken,         \* props.jwtToken of each instance
  nextTickDefined,  \* whether the free identifier nextTick (line 345) resolves
  mediaDevices,     \* whether navigator.mediaDevices exists
  joins,            \* the invocations of joinRoom: position and closure
  shares,           \* the invocations of shareScreen
  leaves,           \* number of leaveRoom calls
  socket,           \* socket.value: index into sockets, 0 for null
  sockets,          \* the socket.io sockets created by io(), with listeners
  pcs,              \* the RTCPeerConnection objects created
  videoList,        \* videoList.value
  emitted,          \* bag of the events emitted to the parent: <<name, arg>>
  sent,             \* log of socket.emit calls, in order
  stopped,          \* MediaStream objects whose tracks were stopped
  recv,             \* number of messages the environment has delivered
  iceIn,            \* the ice-candidate messages received: their senders
  listed,           \* the peers listed by the discover messages handled
  room,             \* relay: identities that have sent discover
  relayed           \* relay: how many entries of sent it has processed

vars == <<jwtToken, nextTickDefined, mediaDevices, joins, shares, leaves, socket,
          sockets, pcs, videoList, emitted, sent, stopped, recv, iceIn, listed, room,
                 relayed>>

props == <<jwtToken, nextTickDefined, mediaDevices>>

\* ------------------------------------------------- one instance's state
\* The mutable state of instance c as one record, so that the listeners of
\* an event can be run one after the other within a step.
State(c) == [socket |-> socket[c], sockets |-> sockets[c], pcs |-> pcs[c],
             videoList |-> videoList[c], emitted |-> emitted[c],
             sent |-> sent[c], stopped |-> stopped[c], joins |-> joins[c],
             iceIn |-> iceIn[c], listed |-> listed[c], thrown |-> FALSE]

Update(c, st) ==
  /\ socket' = [socket EXCEPT ![c] = st.socket]
  /\ sockets' = [sockets EXCEPT ![c] = st.sockets]
  /\ pcs' = [pcs EXCEPT ![c] = st.pcs]
  /\ videoList' = [videoList EXCEPT ![c] = st.videoList]
  /\ emitted' = [emitted EXCEPT ![c] = st.emitted]
  /\ sent' = [sent EXCEPT ![c] = st.sent]
  /\ stopped' = [stopped EXCEPT ![c] = st.stopped]
  /\ joins' = [joins EXCEPT ![c] = st.joins]
  /\ iceIn' = [iceIn EXCEPT ![c] = st.iceIn]
  /\ listed' = [listed EXCEPT ![c] = st.listed]

\* emit(name, arg)
Emit(st, name, arg) ==
  [st EXCEPT !.emitted = @ (+) SetToBag({<<name, arg>>})]

\* socket.value.emit(ev, {target}) : throws TypeError when socket.value is null
SocketEmit(st, ev, target) ==
  IF st.socket = 0 THEN [st EXCEPT !.thrown = TRUE]
  ELSE [st EXCEPT !.sent = Append(@, [sock |-> st.socket, ev |-> ev, target |-> target])]

\* socket.value.id : undefined until the socket is connected
SocketValueId(c, st) ==
  IF st.sockets[st.socket].connected THEN SocketId(c, st.socket) ELSE null

NewSocket == [connected |-> FALSE, open |-> TRUE, errors |-> 0,
              onConnectError |-> 0, onDiscover |-> <<>>, onRequest |-> <<>>,
              onAnswer |-> <<>>, onIce |-> <<>>]

\* socket.value.on(ev, listener): the listener is named by the closure it
\* holds (a joinRoom invocation or a peer connection).
SocketOn(st, ev, who) ==
  IF st.socket = 0 THEN [st EXCEPT !.thrown = TRUE]
  ELSE CASE ev = "discover" ->
              [st EXCEPT !.sockets[st.socket].onDiscover = Append(@, who)]
         [] ev = "request" ->
              [st EXCEPT !.sockets[st.socket].onRequest = Append(@, who)]
         [] ev = "answer" ->
              [st EXCEPT !.sockets[st.socket].onAnswer = Append(@, who)]
         [] ev = "ice-candidate" ->
              [st EXCEPT !.sockets[st.socket].onIce = Append(@, who)]

\* ------------------------------------------------------------ joinedRoom
HasVideo(list, id) == \E i \in 1..Len(list) : list[i].id = id

\* The mutant of joinedRoom's registration: no lookup before the push.
PushVideoAlways(list, stream, isLocal) ==
  Append(list, [id |-> stream.id, muted |-> isLocal, stream |-> stream,
                isLocal |-> isLocal])

\* lines 331-342: push the entry unless one with this id is present
PushVideo(list, stream, isLocal) ==
  IF HasVideo(list, stream.id) THEN list
  ELSE Append(list, [id |-> stream.id, muted |-> isLocal, stream |-> stream,
                     isLocal |-> isLocal])

\* lines 330-354.  nextTick is not among the names imported on line 12: when
\* the build does not supply it the call on line 345 throws a ReferenceError
\* after the push and before the emit.
joinedRoom(st, stream, isLocal) ==
  LET pushed == [st EXCEPT !.videoList = PushVideo(@, stream, isLocal)]
  IN IF ~nextTickDefined THEN [pushed EXCEPT !.thrown = TRUE]
     ELSE Emit(pushed, "joined-room", stream.id)

\* -------------------------------------------------------------- joinRoom
Falsy(token) == token \in {NullToken, ""}

\* lines 97-138: joinRoom up to its await of getUserMedia
JoinRoomBody(c) ==
  /\ IF Falsy(jwtToken[c])
     THEN \* lines 101-104: console.error and return
          /\ joins' = [joins EXCEPT ![c] =
                         Append(@, [stage |-> "noToken"])]
          /\ UNCHANGED <<socket, sockets, emitted>>
     ELSE \* lines 106-117: io() and the connect_error listener
          /\ sockets' = [sockets EXCEPT ![c] =
                           Append(@, [NewSocket EXCEPT !.onConnectError = 1])]
          /\ socket' = [socket EXCEPT ![c] = Len(sockets[c]) + 1]
          /\ IF mediaDevices[c]
             THEN \* line 138: suspended in getUserMedia
                  /\ joins' = [joins EXCEPT ![c] =
                       Append(@, [stage |-> "getUserMedia"])]
                  /\ UNCHANGED emitted
             ELSE \* navigator.mediaDevices is undefined: TypeError inside
                  \* the try, caught on line 140
                  /\ joins' = [joins EXCEPT ![c] =
                       Append(@, [stage |-> "mediaError"])]
                  /\ emitted' = [emitted EXCEPT ![c] =
                       @ (+) SetToBag({<<"media-error", ErrorArg>>})]
  /\ UNCHANGED <<props, shares, leaves, pcs, videoList, sent, stopped, recv,
                 iceIn, listed, room, relayed>>

\* lines 418-420: mounting the component calls joinRoom
onMounted(c) ==
  /\ Len(joins[c]) = 0
  /\ JoinRoomBody(c)

\* line 431: joinRoom is exposed, the parent may call it again
joinRoom(c) ==
  /\ Len(joins[c]) >= 1
  /\ Len(joins[c]) < MaxJoins
  /\ JoinRoomBody(c)

\* lines 146-307: the rest of joinRoom once getUserMedia has resolved
AfterMedia(st, j) ==
  LET s1 == joinedRoom(st, CameraStream(j), TRUE)
      s2 == SocketOn(s1, "discover", j)
      s3 == SocketOn(s2, "request", j)
      s4 == SocketEmit(s3, "discover", RoomId)
  IN IF s1.thrown THEN [s1 EXCEPT !.joins[j].stage = "threw"]
     ELSE IF s2.thrown THEN [s2 EXCEPT !.joins[j].stage = "threw"]
     ELSE [s4 EXCEPT !.joins[j].stage = "done"]

GetUserMediaResolves(c, j) ==
  /\ j \in 1..Len(joins[c])
  /\ joins[c][j].stage = "getUserMedia"
  /\ Update(c, AfterMedia(State(c), j))
  /\ UNCHANGED <<props, shares, leaves, recv, room, relayed>>

\* The mutant of the catch of lines 140-144: no return after the emit.
GetUserMediaRejectsNoReturn(c, j) ==
  /\ j \in 1..Len(joins[c])
  /\ joins[c][j].stage = "getUserMedia"
  /\ Update(c, [AfterMedia(Emit(State(c), "media-error", ErrorArg), j)
                  EXCEPT !.joins[j].stage = "mediaError"])
  /\ UNCHANGED <<props, shares, leaves, recv, room, relayed>>

\* lines 140-144: the catch emits media-error and returns
GetUserMediaRejects(c, j) ==
  /\ j \in 1..Len(joins[c])
  /\ joins[c][j].stage = "getUserMedia"
  /\ Update(c, Emit([State(c) EXCEPT !.joins[j].stage = "mediaError"],
                    "media-error", ErrorArg))
  /\ UNCHANGED <<props, shares, leaves, recv, room, relayed>>

\* ------------------------------------------------------------- leaveRoom
RECURSIVE StreamsOf(_)
StreamsOf(list) ==
  IF list = <<>> THEN {} ELSE {Head(list).stream} \cup StreamsOf(Tail(list))

\* lines 356-374
leaveRoom(c) ==
  /\ Len(joins[c]) >= 1
  /\ leaves[c] < MaxLeaves
  /\ leaves' = [leaves EXCEPT ![c] = @ + 1]
  /\ LET st == State(c)
         s1 == [st EXCEPT !.stopped = @ \cup StreamsOf(st.videoList),
                          !.videoList = <<>>]
         s2 == IF s1.socket = 0 THEN s1
               ELSE [s1 EXCEPT !.sockets[s1.socket].open = FALSE,
                               !.sockets[s1.socket].connected = FALSE,
                               !.socket = 0]
     IN Update(c, Emit(s2, "left-room", RoomId))
  /\ UNCHANGED <<props, shares, recv, room, relayed>>

\* ----------------------------------------------------------- shareScreen
\* lines 396-405: shareScreen up to its await of getDisplayMedia; exposed on
\* line 435
shareScreen(c) ==
  /\ Len(joins[c]) >= 1
  /\ Len(shares[c]) < MaxShares
  /\ IF mediaDevices[c]
     THEN /\ shares' = [shares EXCEPT ![c] = Append(@, "getDisplayMedia")]
          /\ UNCHANGED emitted
     ELSE \* lines 398-402
          /\ shares' = [shares EXCEPT ![c] = Append(@, "noMediaDevices")]
          /\ emitted' = [emitted EXCEPT ![c] =
                           @ (+) SetToBag({<<"media-error", ErrorArg>>})]
  /\ UNCHANGED <<props, joins, leaves, socket, sockets, pcs, videoList, sent,
                 stopped, recv, iceIn, listed, room, relayed>>

\* lines 406-415: an exception of joinedRoom lands in the catch
AfterDisplayMedia(st, n) ==
  LET s1 == joinedRoom(st, ScreenStream(n), TRUE)
  IN IF s1.thrown THEN Emit(s1, "media-error", ErrorArg)
     ELSE Emit(s1, "share-started", ScreenStream(n).id)

GetDisplayMediaResolves(c, n) ==
  /\ n \in 1..Len(shares[c])
  /\ shares[c][n] = "getDisplayMedia"
  /\ shares' = [shares EXCEPT ![c][n] = "done"]
  /\ Update(c, AfterDisplayMedia(State(c), n))
  /\ UNCHANGED <<props, leaves, recv, room, relayed>>

\* lines 412-415
GetDisplayMediaRejects(c, n) ==
  /\ n \in 1..Len(shares[c])
  /\ shares[c][n] = "getDisplayMedia"
  /\ shares' = [shares EXCEPT ![c][n] = "rejected"]
  /\ Update(c, Emit(State(c), "media-error", ErrorArg))
  /\ UNCHANGED <<props, leaves, recv, room, relayed>>

\* ------------------------------------------------------ peer connections
\* new RTCPeerConnection(props.peerOptions) with the tracks of the local
\* stream of joinRoom invocation j added (lines 165-168, 234-237).  The
\* function is suspended in createOffer when the step ends.
NewPC(st, j, peerID, via) ==
  [peer |-> peerID, via |-> via, join |-> j, stage |-> "createOffer",
   localDescription |-> FALSE, remoteDescription |-> FALSE,
   localTracks |-> {CameraStream(j)}, born |-> Len(st.iceIn),
   iceLog |-> <<>>, tracks |-> 0, gathered |-> FALSE, closed |-> FALSE,
   iceConnectionState |-> "new"]

\* lines 228-264: connectToPeer up to its await of createOffer.  An async
\* function: a TypeError on socket.value.id rejects its promise, unobserved.
connectToPeer(c, st, j, peerID) ==
  IF st.socket = 0 THEN st
  ELSE IF peerID = SocketValueId(c, st) THEN st
  ELSE SocketOn([st EXCEPT !.pcs = Append(@, NewPC(st, j, peerID, "discover"))],
                "ice-candidate", Len(st.pcs) + 1)

\* lines 152-156: discoveryData.peers.forEach
RECURSIVE ForEachPeer(_, _, _, _)
ForEachPeer(c, st, j, peers) ==
  IF peers = <<>> THEN st
  ELSE IF st.socket = 0 THEN [st EXCEPT !.thrown = TRUE]
  ELSE IF Head(peers) # SocketValueId(c, st)
       THEN ForEachPeer(c, connectToPeer(c, st, j, Head(peers)), j, Tail(peers))
       ELSE ForEachPeer(c, st, j, Tail(peers))

\* lines 149-159: the "discover" listener of joinRoom invocation j
DiscoverListener(c, st, j, peers) ==
  LET s1 == ForEachPeer(c, st, j, peers)
  IN IF s1.thrown THEN s1 ELSE Emit(s1, "opened-room", RoomId)

\* lines 161-192: the "request" listener up to its await of createOffer
RequestListener(st, j, socketId) ==
  [st EXCEPT !.pcs = Append(@, NewPC(st, j, socketId, "request"))]

\* lines 201-209, 272-280: the "answer" listener of peer connection k.
\* setRemoteDescription(answer) succeeds in state have-local-offer and is
\* rejected otherwise; the rejection is caught and logged.
AnswerListener(st, k, socketId) ==
  IF st.pcs[k].peer = socketId
     /\ st.pcs[k].localDescription /\ ~st.pcs[k].remoteDescription
  THEN [st EXCEPT !.pcs[k].remoteDescription = TRUE]
  ELSE st

\* The mutant of the "ice-candidate" listener: no test of data.socketId.
IceListenerAnyPeer(st, k, socketId, candidate, n) ==
  IF candidate
  THEN [st EXCEPT !.pcs[k].iceLog =
          Append(@, [msg |-> n, applied |-> st.pcs[k].remoteDescription])]
  ELSE st

\* lines 212-220, 253-261, 282-290: an "ice-candidate" listener of peer
\* connection k, for the n-th ice-candidate message.  addIceCandidate is
\* called whatever the state; it is rejected (caught and logged) while the
\* remote description is unset.  iceLog records each call.
IceListener(st, k, socketId, candidate, n) ==
  IF st.pcs[k].peer = socketId /\ candidate
  THEN [st EXCEPT !.pcs[k].iceLog =
          Append(@, [msg |-> n, applied |-> st.pcs[k].remoteDescription])]
  ELSE st

\* lines 114-117
ConnectErrorListener(st) == Emit(st, "socket-error", ErrorArg)

\* The listeners of one event, in registration order; a listener that
\* throws ends the dispatch.
RECURSIVE RunDiscover(_, _, _, _)
RunDiscover(c, st, js, peers) ==
  IF js = <<>> \/ st.thrown THEN st
  ELSE RunDiscover(c, DiscoverListener(c, st, Head(js), peers), Tail(js), peers)

RECURSIVE RunRequest(_, _, _)
RunRequest(st, js, socketId) ==
  IF js = <<>> THEN st
  ELSE RunRequest(RequestListener(st, Head(js), socketId), Tail(js), socketId)

RECURSIVE RunAnswer(_, _, _)
RunAnswer(st, ks, socketId) ==
  IF ks = <<>> THEN st
  ELSE RunAnswer(AnswerListener(st, Head(ks), socketId), Tail(ks), socketId)

RECURSIVE RunIce(_, _, _, _, _)
RunIce(st, ks, socketId, candidate, n) ==
  IF ks = <<>> THEN st
  ELSE RunIce(IceListener(st, Head(ks), socketId, candidate, n), Tail(ks),
              socketId, candidate, n)

\* One signaling message arriving on socket s of instance c.  "offer" has
\* no listener anywhere in the component.
Dispatch(c, st, s, m) ==
  CASE m.ev = "discover" ->
         LET s1 == IF st.sockets[s].onDiscover = <<>> THEN st
                   ELSE [st EXCEPT !.listed =
                           @ \cup {m.peers[i] : i \in 1..Len(m.peers)}]
         IN RunDiscover(c, s1, st.sockets[s].onDiscover, m.peers)
    [] m.ev = "request" -> RunRequest(st, st.sockets[s].onRequest, m.socketId)
    [] m.ev = "answer" -> RunAnswer(st, st.sockets[s].onAnswer, m.socketId)
    [] m.ev = "ice-candidate" ->
         LET s1 == IF m.candidate THEN [st EXCEPT !.iceIn = Append(@, m.socketId)]
                   ELSE st
         IN RunIce(s1, st.sockets[s].onIce, m.socketId, m.candidate, Len(s1.iceIn))
    [] OTHER -> st

Msg(ev, socketId, peers, candidate) ==
  [ev |-> ev, socketId |-> socketId, peers |-> peers, candidate |-> candidate]

\* ------------------------------------------- RTCPeerConnection completions
Pending(c, k, stage) == k \in 1..Len(pcs[c]) /\ pcs[c][k].stage = stage

\* lines 192-193, 264-265: createOffer resolved, setLocalDescription called
CreateOfferResolves(c, k) ==
  /\ Pending(c, k, "createOffer")
  /\ pcs' = [pcs EXCEPT ![c][k].stage = "setLocalDescription"]
  /\ UNCHANGED <<props, joins, shares, leaves, socket, sockets, videoList,
                 emitted, sent, stopped, recv, iceIn, listed, room,
                 relayed>>

\* lines 195-220, 267-300: the rest of the function once setLocalDescription
\* has resolved.  A TypeError (socket.value is null) lands in the catch.
AfterLocalDescription(st, k) ==
  LET pc == st.pcs[k]
      s0 == [st EXCEPT !.pcs[k].localDescription = TRUE]
      s1 == SocketEmit(s0, "offer", pc.peer)
      s2 == SocketOn(s1, "answer", k)
      s3 == SocketOn(s2, "ice-candidate", k)
  IN IF s1.thrown THEN [s0 EXCEPT !.pcs[k].stage = "failed"]
     ELSE [s3 EXCEPT !.pcs[k].stage = "done"]

SetLocalDescriptionResolves(c, k) ==
  /\ Pending(c, k, "setLocalDescription")
  /\ Update(c, AfterLocalDescription(State(c), k))
  /\ UNCHANGED <<props, shares, leaves, recv, room, relayed>>

\* lines 222-224, 302-304: a rejected createOffer or setLocalDescription is
\* caught and logged
NegotiationRejects(c, k) ==
  /\ Pending(c, k, "createOffer") \/ Pending(c, k, "setLocalDescription")
  /\ pcs' = [pcs EXCEPT ![c][k].stage = "failed"]
  /\ UNCHANGED <<props, joins, shares, leaves, socket, sockets, videoList,
                 emitted, sent, stopped, recv, iceIn, listed, room,
                 relayed>>

\* lines 176-183, 244-251: onicecandidate with a candidate, fired once the
\* local description is set.  In an event handler a TypeError is reported
\* to the console and nothing else happens.
OnIceCandidate(c, k) ==
  /\ k \in 1..Len(pcs[c])
  /\ pcs[c][k].localDescription /\ ~pcs[c][k].gathered
  /\ LET st == [State(c) EXCEPT !.pcs[k].gathered = TRUE]
         s1 == SocketEmit(st, "ice-candidate", pcs[c][k].peer)
     IN Update(c, IF s1.thrown THEN st ELSE s1)
  /\ UNCHANGED <<props, shares, leaves, recv, room, relayed>>

\* lines 171-174, 239-242: ontrack, fired for each track of a stream the
\* remote description announces
OnTrack(c, k, sid) ==
  /\ k \in 1..Len(pcs[c])
  /\ pcs[c][k].remoteDescription /\ pcs[c][k].tracks < MaxTracks
  /\ Update(c, joinedRoom([State(c) EXCEPT !.pcs[k].tracks = @ + 1],
                          RemoteStream(sid), FALSE))
  /\ UNCHANGED <<props, shares, leaves, recv, room, relayed>>

\* The changes of iceConnectionState the browser reports once both
\* descriptions are set: the link comes up, is lost, and is given up.
IceStateAfter(state) ==
  CASE state = "new" -> {"connected"}
    [] state = "connected" -> {"disconnected"}
    [] state = "disconnected" -> {"failed"}
    [] OTHER -> {}

\* lines 185-189, 292-296: oniceconnectionstatechange.  The handler logs
\* "Peer disconnected" to the console when the state is "disconnected" and
\* does nothing else, whatever the state.
OnIceConnectionStateChange(c, k, state) ==
  /\ k \in 1..Len(pcs[c])
  /\ pcs[c][k].localDescription /\ pcs[c][k].remoteDescription
  /\ state \in IceStateAfter(pcs[c][k].iceConnectionState)
  /\ pcs' = [pcs EXCEPT ![c][k].iceConnectionState = state]
  /\ UNCHANGED <<props, joins, shares, leaves, socket, sockets, videoList,
                 emitted, sent, stopped, recv, iceIn, listed, room,
                 relayed>>

\* ------------------------------------------------------- socket transport
Connect(c, s) ==
  /\ s \in 1..Len(sockets[c])
  /\ sockets[c][s].open /\ ~sockets[c][s].connected
  /\ sockets' = [sockets EXCEPT ![c][s].connected = TRUE]
  /\ UNCHANGED <<props, joins, shares, leaves, socket, pcs, videoList, emitted,
                 sent, stopped, recv, iceIn, listed, room,
                 relayed>>

ConnectError(c, s) ==
  /\ s \in 1..Len(sockets[c])
  /\ sockets[c][s].open /\ ~sockets[c][s].connected /\ sockets[c][s].errors = 0
  /\ Update(c, ConnectErrorListener([State(c) EXCEPT !.sockets[s].errors = 1]))
  /\ UNCHANGED <<props, shares, leaves, recv, room, relayed>>

\* The messages a relay or a remote peer can send to socket s of instance c.
RECURSIVE SeqsUpTo(_, _)
SeqsUpTo(S, n) ==
  IF n = 0 THEN {<<>>}
  ELSE SeqsUpTo(S, n - 1) \cup
       {Append(q, x) : q \in {r \in SeqsUpTo(S, n - 1) : Len(r) = n - 1}, x \in S}

\* From the identities ids, with peer lists of at most n entries.  A peer
\* list names each identity at most once and may name the socket itself.
Incoming(c, s, ids, n) ==
  {Msg("discover", null, peers, FALSE) :
      peers \in {q \in SeqsUpTo({SocketId(c, s)} \cup ids, n) :
                   \A a, b \in 1..Len(q) : q[a] = q[b] => a = b}}
  \cup {Msg(ev, from, <<>>, FALSE) :
          ev \in {"request", "answer", "offer"}, from \in ids}
  \cup {Msg("ice-candidate", from, <<>>, cand) : from \in ids, cand \in BOOLEAN}

\* A message from the environment is delivered to a connected socket.
Deliver(c, s, m) ==
  /\ s \in 1..Len(sockets[c])
  /\ sockets[c][s].connected
  /\ recv' = [recv EXCEPT ![c] = @ + 1]
  /\ LET st == Dispatch(c, State(c), s, m)
     IN /\ Len(st.pcs) <= MaxPCs
        /\ Update(c, st)
  /\ UNCHANGED <<props, shares, leaves, room, relayed>>

Receive(c, s, m) == recv[c] < MaxRecv /\ Deliver(c, s, m)

\* the same, for the specification of the exposed methods
ReceiveFew(c, s, m) == recv[c] < MaxFew /\ Deliver(c, s, m)

\* ------------------------------------------------------------ the relay
\* The relay of section 6 of the design: it answers discover(roomId) with
\* the identities already in the room, and passes offer, answer and
\* ice-candidate to their target, stamped with the sender's identity.
RECURSIVE SortedSeq(_)
SortedSeq(S) ==
  IF S = {} THEN <<>>
  ELSE LET least == CHOOSE x \in S : \A y \in S \ {x} : Less(x, y)
       IN <<least>> \o SortedSeq(S \ {least})

Connected(c, s) == s \in 1..Len(sockets[c]) /\ sockets[c][s].connected

\* The relay takes the next message instance c has sent.
Relay(c) ==
  LET n == relayed[c] + 1
      m == sent[c][n]
      from == SocketId(c, m.sock)
  IN /\ n <= Len(sent[c])
     /\ Connected(c, m.sock)
     /\ relayed' = [relayed EXCEPT ![c] = n]
     /\ IF m.ev = "discover"
        THEN /\ room' = room \cup {from}
             /\ Update(c, Dispatch(c, State(c), m.sock,
                            Msg("discover", null, SortedSeq(room \ {from}), FALSE)))
        ELSE /\ room' = room
             /\ IF m.target[1] \in Clients /\ Connected(m.target[1], m.target[2])
                THEN LET t == m.target[1]
                         st == Dispatch(t, State(t), m.target[2],
                                        Msg(m.ev, from, <<>>, TRUE))
                     IN Len(st.pcs) <= MaxPCs /\ Update(t, st)
                ELSE UNCHANGED <<socket, sockets, pcs, videoList, emitted, sent,
                                 stopped, joins, iceIn, listed>>
     /\ UNCHANGED <<props, shares, leaves, recv>>

\* The relay sends a member the current list of the room again.
RelayDiscovered(c, s) ==
  /\ Connected(c, s) /\ SocketId(c, s) \in room
  /\ recv[c] < MaxPush
  /\ recv' = [recv EXCEPT ![c] = @ + 1]
  /\ Update(c, Dispatch(c, State(c), s, Msg("discover", null, SortedSeq(room), FALSE)))
  /\ Len(pcs'[c]) <= MaxPCs
  /\ UNCHANGED <<props, shares, leaves, room, relayed>>

\* The relay tells a member that another member requests a connection.
RelayRequest(c, s, from) ==
  /\ Connected(c, s) /\ SocketId(c, s) \in room
  /\ from \in room \ {SocketId(c, s)}
  /\ recv[c] < MaxPush
  /\ recv' = [recv EXCEPT ![c] = @ + 1]
  /\ Update(c, Dispatch(c, State(c), s, Msg("request", from, <<>>, FALSE)))
  /\ Len(pcs'[c]) <= MaxPCs
  /\ UNCHANGED <<props, shares, leaves, room, relayed>>

\* ------------------------------------------------------- specifications
\* lines 84-87: the refs of setup(), and the props and the page the
\* instance is given
Init ==
  /\ jwtToken \in [Clients -> {NullToken, "", "jwt"}]
  /\ nextTickDefined \in BOOLEAN
  /\ mediaDevices \in [Clients -> BOOLEAN]
  /\ joins = [c \in Clients |-> <<>>]
  /\ shares = [c \in Clients |-> <<>>]
  /\ leaves = [c \in Clients |-> 0]
  /\ socket = [c \in Clients |-> 0]
  /\ sockets = [c \in Clients |-> <<>>]
  /\ pcs = [c \in Clients |-> <<>>]
  /\ videoList = [c \in Clients |-> <<>>]
  /\ emitted = [c \in Clients |-> EmptyBag]
  /\ sent = [c \in Clients |-> <<>>]
  /\ stopped = [c \in Clients |-> {}]
  /\ recv = [c \in Clients |-> 0]
  /\ iceIn = [c \in Clients |-> <<>>]
  /\ listed = [c \in Clients |-> {}]
  /\ room = {}
  /\ relayed = [c \in Clients |-> 0]

\* One instance in an arbitrary environment.
Self == "p1"

Init1 ==
  /\ Init
  /\ jwtToken["p2"] = "jwt"
  /\ mediaDevices["p2"]

Next ==
  \/ onMounted(Self)
  \/ \E j \in 1..MaxJoins : GetUserMediaResolves(Self, j)
  \/ \E j \in 1..MaxJoins : GetUserMediaRejects(Self, j)
  \/ leaveRoom(Self)
  \/ \E s \in 1..MaxJoins : Connect(Self, s)
  \/ \E s \in 1..MaxJoins : ConnectError(Self, s)
  \/ \E s \in 1..MaxJoins : \E m \in Incoming(Self, s, RemoteIds, MaxPeers) : Receive(Self, s, m)
  \/ \E k \in 1..MaxPCs : CreateOfferResolves(Self, k)
  \/ \E k \in 1..MaxPCs : SetLocalDescriptionResolves(Self, k)
  \/ \E k \in 1..MaxPCs : NegotiationRejects(Self, k)
  \/ \E k \in 1..MaxPCs : \E sid \in RemoteStreamIds : OnTrack(Self, k, sid)

Spec == Init1 /\ [][Next]_vars

\* One instance whose parent calls the exposed methods joinRoom, leaveRoom
\* and shareScreen at any time.
NextCalls ==
  \/ onMounted(Self)
  \/ joinRoom(Self)
  \/ leaveRoom(Self)
  \/ shareScreen(Self)
  \/ \E j \in 1..MaxJoins : GetUserMediaResolves(Self, j)
  \/ \E j \in 1..MaxJoins : GetUserMediaRejects(Self, j)
  \/ \E n \in 1..MaxShares : GetDisplayMediaResolves(Self, n)
  \/ \E n \in 1..MaxShares : GetDisplayMediaRejects(Self, n)
  \/ \E s \in 1..MaxJoins : Connect(Self, s)
  \/ \E s \in 1..MaxJoins :
       \E m \in Incoming(Self, s, {RemoteId("r1")}, MaxPeers) :
         ReceiveFew(Self, s, m)
  \/ \E k \in 1..MaxPCs : CreateOfferResolves(Self, k)
  \/ \E k \in 1..MaxPCs : SetLocalDescriptionResolves(Self, k)
  \/ \E k \in 1..MaxPCs : OnIceCandidate(Self, k)
  \/ \E k \in 1..MaxPCs : OnTrack(Self, k, <<"rs", 1>>)

SpecCalls == Init1 /\ [][NextCalls]_vars

\* One instance that has its token and its media, and the browser reporting
\* the state of the links to its peers.  Whether nextTick resolves is left
\* to the build, as in Init.
InitLink ==
  /\ Init
  /\ jwtToken = [c \in Clients |-> "jwt"]
  /\ mediaDevices = [c \in Clients |-> TRUE]

NextLink ==
  \/ onMounted(Self)
  \/ GetUserMediaResolves(Self, 1)
  \/ Connect(Self, 1)
  \/ \E m \in Incoming(Self, 1, RemoteIds, MaxPeers) : Receive(Self, 1, m)
  \/ \E k \in 1..MaxPCs : CreateOfferResolves(Self, k)
  \/ \E k \in 1..MaxPCs : SetLocalDescriptionResolves(Self, k)
  \/ \E k \in 1..MaxPCs : OnTrack(Self, k, <<"rs", 1>>)
  \/ \E k \in 1..MaxPCs :
       \E state \in {"connected", "disconnected", "failed"} :
         OnIceConnectionStateChange(Self, k, state)

SpecLink == InitLink /\ [][NextLink]_vars

\* Two instances that join the same room through the relay: both have a
\* token, media acquisition and negotiation steps succeed.  Whether nextTick
\* resolves is left to the build, as in Init.
Init2 ==
  /\ Init
  /\ jwtToken = [c \in Clients |-> "jwt"]
  /\ mediaDevices = [c \in Clients |-> TRUE]

Next2 ==
  \E c \in Clients :
    \/ onMounted(c)
    \/ GetUserMediaResolves(c, 1)
    \/ Connect(c, 1)
    \/ Relay(c)
    \/ RelayDiscovered(c, 1)
    \/ \E from \in room : RelayRequest(c, 1, from)
    \/ \E k \in 1..MaxPCs : CreateOfferResolves(c, k)
    \/ \E k \in 1..MaxPCs : SetLocalDescriptionResolves(c, k)
    \/ \E k \in 1..MaxPCs : OnIceCandidate(c, k)

SpecTwo == Init2 /\ [][Next2]_vars

\* ================================================================ claims
Range(q) == {q[i] : i \in 1..Len(q)}
PCs(c) == 1..Len(pcs[c])
OwnIds(c) == {SocketId(c, s) : s \in 1..Len(sockets[c])}
\* the socket.emit calls of instance c for event ev addressed to target
SentTo(c, ev, target) ==
  {i \in 1..Len(sent[c]) : sent[c][i].ev = ev /\ sent[c][i].target = target}
Emitted(c, name, arg) == CopiesIn(<<name, arg>>, emitted[c])
EmittedNames(c) == {e[1] : e \in BagToSet(emitted[c])}

\* C1: whenever joinRoom has run without a token, no socket was opened, no
\* media was acquired, no discover was sent, and an error event was emitted
\* to the caller.
C1_NoTokenSurfacesAuthError ==
  \A c \in Clients :
    (\E j \in 1..Len(joins[c]) : joins[c][j].stage = "noToken") =>
      /\ socket[c] = 0 /\ sockets[c] = <<>>
      /\ videoList[c] = <<>> /\ sent[c] = <<>>
      /\ EmittedNames(c) # {}

\* C2: the connections created from discover messages are exactly one per
\* distinct listed peer other than self, none is to an own identity, and no
\* peer is sent more than one offer.
C2_OneInitiatorPerListedPeer ==
  \A c \in Clients :
    LET D == {k \in PCs(c) : pcs[c][k].via = "discover"}
    IN /\ Cardinality(D) = Cardinality(listed[c] \ OwnIds(c))
       /\ \A k \in D : /\ pcs[c][k].peer \notin OwnIds(c)
                       /\ Cardinality(SentTo(c, "offer", pcs[c][k].peer)) <= 1
                       /\ pcs[c][k].stage = "done" =>
                            Cardinality(SentTo(c, "offer", pcs[c][k].peer)) = 1

\* instance c holds at most one live connection per peer identity
AtMostOnePerPeer(c) ==
  \A k1, k2 \in PCs(c) :
    (k1 # k2 /\ ~pcs[c][k1].closed /\ ~pcs[c][k2].closed) =>
      pcs[c][k1].peer # pcs[c][k2].peer

\* C3: at most one live RTCPeerConnection per remote peer identifier.
C3_OneConnectionPerPeer == \A c \in Clients : AtMostOnePerPeer(c)

\* C4: addIceCandidate is never invoked on a connection whose remote
\* description is unset.
C4_NoCandidateBeforeRemoteDescription ==
  \A c \in Clients : \A k \in PCs(c) :
    \A i \in 1..Len(pcs[c][k].iceLog) : pcs[c][k].iceLog[i].applied

\* the calls of addIceCandidate on connection k for the n-th ice message
IceCalls(c, k, n) ==
  {i \in 1..Len(pcs[c][k].iceLog) : pcs[c][k].iceLog[i].msg = n}
IceApplied(c, k, n) == {i \in IceCalls(c, k, n) : pcs[c][k].iceLog[i].applied}
\* the ice messages received from the peer of connection k since k exists
IceFor(c, k) ==
  {n \in (pcs[c][k].born + 1)..Len(iceIn[c]) : iceIn[c][n] = pcs[c][k].peer}

\* C5: every ice-candidate message from the peer of a connection leads to at
\* most one addIceCandidate call, and once the remote description is set it
\* has been applied exactly once.
C5_CandidateAppliedExactlyOnce ==
  \A c \in Clients : \A k \in PCs(c) : \A n \in IceFor(c, k) :
    /\ Cardinality(IceCalls(c, k, n)) <= 1
    /\ pcs[c][k].remoteDescription => Cardinality(IceApplied(c, k, n)) = 1

\* C6: a leaveRoom step closes every peer connection, empties videoList,
\* disconnects the socket and emits left-room.
C6_LeaveClosesEverything ==
  [][\A c \in Clients :
       leaves'[c] # leaves[c] =>
         /\ \A k \in 1..Len(pcs'[c]) : pcs'[c][k].closed
         /\ videoList'[c] = <<>>
         /\ socket'[c] = 0
         /\ \A s \in 1..Len(sockets'[c]) : ~sockets'[c][s].open
         /\ Emitted(c, "left-room", RoomId)' = Emitted(c, "left-room", RoomId) + 1
    ]_vars

\* C7: the ids of videoList are pairwise distinct in every state, and no step
\* changes the entry of an id that stays in the list.
C7_DistinctIds ==
  \A c \in Clients : \A i, j \in 1..Len(videoList[c]) :
    videoList[c][i].id = videoList[c][j].id => i = j
C7_EntryKept ==
  \A c \in Clients : \A i \in 1..Len(videoList[c]) :
    \A j \in 1..Len(videoList'[c]) :
      videoList'[c][j].id = videoList[c][i].id => videoList'[c][j] = videoList[c][i]
C7_RegistryIdsUnique == []C7_DistinctIds /\ [][C7_EntryKept]_vars

\* C7 witness: joinedRoom has run twice for the id of the local camera
\* stream, once for the local stream and once for a track of a remote stream
\* announcing the same id, and videoList holds the one entry, still the
\* muted local one.
C7_Witness ==
  \E c \in Clients :
    /\ Emitted(c, "joined-room", <<"cam", 1>>) = 2
    /\ \E k \in PCs(c) : pcs[c][k].tracks = 1
    /\ videoList[c] = <<[id |-> <<"cam", 1>>, muted |-> TRUE,
                         stream |-> CameraStream(1), isLocal |-> TRUE]>>

\* C8: once a joinRoom with a token has resumed from a successful
\* getUserMedia (and no leaveRoom has run), the local stream is one muted
\* local entry, joined-room was emitted for it, the discover and request
\* listeners are installed and discover was sent exactly once.
C8_JoinRegistersAndDiscovers ==
  \A c \in Clients : \A j \in 1..Len(joins[c]) :
    (joins[c][j].stage \in {"done", "threw"} /\ leaves[c] = 0 /\ Len(joins[c]) = 1) =>
      /\ \E i \in 1..Len(videoList[c]) :
           videoList[c][i] = [id |-> CameraStream(j).id, muted |-> TRUE,
                              stream |-> CameraStream(j), isLocal |-> TRUE]
      /\ Emitted(c, "joined-room", CameraStream(j).id) >= 1
      /\ socket[c] # 0
      /\ j \in Range(sockets[c][socket[c]].onDiscover)
      /\ j \in Range(sockets[c][socket[c]].onRequest)
      /\ Cardinality(SentTo(c, "discover", RoomId)) = 1

\* Nothing is in flight and no step is pending: every joinRoom has ended
\* (returned or thrown) and every negotiation function has run to its end.
Quiet ==
  \A c \in Clients :
    /\ relayed[c] = Len(sent[c])
    /\ \A j \in 1..Len(joins[c]) : joins[c][j].stage \in {"done", "threw"}
    /\ \A k \in PCs(c) : pcs[c][k].stage = "done" /\ pcs[c][k].gathered

\* instance c holds a live connection to identity id with both descriptions
ConnectedTo(c, id) ==
  \E k \in PCs(c) : /\ pcs[c][k].peer = id /\ ~pcs[c][k].closed
                    /\ pcs[c][k].localDescription /\ pcs[c][k].remoteDescription

\* A = p1 and B = p2 have both joined, each with its socket connected and its
\* media acquired, A first: A was only ever sent empty peer lists and B was
\* told of nobody but A.
TwoPeerScenario ==
  /\ Len(joins["p1"]) = 1 /\ Len(joins["p2"]) = 1
  /\ Connected("p1", 1) /\ Connected("p2", 1)
  /\ listed["p1"] = {}
  /\ listed["p2"] \subseteq {SocketId("p1", 1)}

\* C9: in the two-peer scenario, once both joins have ended, every message
\* is delivered and every step has run, A has answered B, both sides hold a
\* connection with local and remote description, and each videoList has 2
\* entries.
C9_TwoPeersConnect ==
  (TwoPeerScenario /\ Quiet) =>
    /\ SentTo("p1", "answer", SocketId("p2", 1)) # {}
    /\ ConnectedTo("p1", SocketId("p2", 1))
    /\ ConnectedTo("p2", SocketId("p1", 1))
    /\ Len(videoList["p1"]) = 2 /\ Len(videoList["p2"]) = 2

\* instance c holds a live connection to id on which its own offer is the
\* local description
InitiatorTo(c, id) ==
  \E k \in PCs(c) : /\ pcs[c][k].peer = id /\ ~pcs[c][k].closed
                    /\ pcs[c][k].localDescription

\* both p1 and p2 have sent an offer to the other
Glare ==
  /\ SentTo("p1", "offer", SocketId("p2", 1)) # {}
  /\ SentTo("p2", "offer", SocketId("p1", 1)) # {}

\* C10: after glare, once everything is delivered, only the side with the
\* smaller identifier is initiator, the other side has answered, and neither
\* holds two connections for the other.
C10_GlareTieBreak ==
  (Glare /\ Quiet) =>
    /\ Less(SocketId("p1", 1), SocketId("p2", 1))
    /\ InitiatorTo("p1", SocketId("p2", 1))
    /\ ~InitiatorTo("p2", SocketId("p1", 1))
    /\ SentTo("p2", "answer", SocketId("p1", 1)) # {}
    /\ AtMostOnePerPeer("p1") /\ AtMostOnePerPeer("p2")

\* the peers instance c holds a connection for
PeersOf(c) == {pcs[c][k].peer : k \in PCs(c)}
\* the answer and ice-candidate messages whose sender has no connection
FromUnknownPeer(c) ==
  {m \in Incoming(c, 1, RemoteIds, 0) :
     m.ev \in {"answer", "ice-candidate"} /\ m.socketId \notin PeersOf(c)}

\* C11: an answer or ice-candidate message from a peer for which no
\* connection exists is dropped.  In every state, each addIceCandidate call
\* on a connection was for a message sent by that connection's peer; and the
\* step that delivers a message of an unknown peer leaves the connections,
\* videoList, the sockets with their listeners, the events emitted and the
\* messages sent as they were (a delivery that changes any of them is not
\* the delivery of such a message).
C11_CallsFromOwnPeer ==
  \A c \in Clients : \A k \in PCs(c) : \A i \in 1..Len(pcs[c][k].iceLog) :
    iceIn[c][pcs[c][k].iceLog[i].msg] = pcs[c][k].peer
C11_DeliveryChangesNothing ==
  \A c \in Clients :
    \/ recv'[c] = recv[c]
    \/ /\ pcs'[c] = pcs[c] /\ videoList'[c] = videoList[c]
       /\ sockets'[c] = sockets[c] /\ socket'[c] = socket[c]
       /\ emitted'[c] = emitted[c] /\ sent'[c] = sent[c]
    \/ \A s \in 1..Len(sockets[c]) : \A m \in FromUnknownPeer(c) : ~Deliver(c, s, m)
C11_UnknownPeerDropped ==
  []C11_CallsFromOwnPeer /\ [][C11_DeliveryChangesNothing]_vars

\* C11 witness: a connection is fully set up with its answer and
\* ice-candidate listeners installed, an ice-candidate message of a peer
\* that has no connection has been delivered since, and no addIceCandidate
\* call was made.
C11_Witness ==
  \E c \in Clients : \E k \in PCs(c) :
    /\ pcs[c][k].stage = "done"
    /\ \E n \in (pcs[c][k].born + 1)..Len(iceIn[c]) : iceIn[c][n] \notin PeersOf(c)
    /\ \A k2 \in PCs(c) : pcs[c][k2].iceLog = <<>>

\* a negotiation step of connection k has failed: createOffer or
\* setLocalDescription was rejected (or the continuation threw), or an
\* addIceCandidate call was rejected
NegotiationFailed(c, k) ==
  \/ pcs[c][k].stage = "failed"
  \/ \E i \in 1..Len(pcs[c][k].iceLog) : ~pcs[c][k].iceLog[i].applied

\* C12: whenever a negotiation step of some connection has failed, a
\* peer-error event has been emitted to the caller.
C12_FailureEmitsPeerError ==
  \A c \in Clients :
    (\E k \in PCs(c) : NegotiationFailed(c, k)) => "peer-error" \in EmittedNames(c)

\* the joinRoom invocations of instance c that ran to their end
JoinsDone(c) == {j \in 1..Len(joins[c]) : joins[c][j].stage = "done"}

\* C13: whenever the media acquisition of joinRoom invocation j has failed,
\* media-error has been emitted, videoList holds no entry for the stream of
\* that invocation, no socket carries a discover or request listener of it,
\* no peer connection belongs to it, and discover was sent only by the
\* invocations that ran to their end; when it is the only invocation and no
\* screen was shared, videoList is empty, nothing was sent and no peer
\* connection exists.
C13_MediaFailureAbortsJoin ==
  \A c \in Clients : \A j \in 1..Len(joins[c]) :
    joins[c][j].stage = "mediaError" =>
      /\ Emitted(c, "media-error", ErrorArg) >= 1
      /\ \A i \in 1..Len(videoList[c]) : videoList[c][i].stream # CameraStream(j)
      /\ \A s \in 1..Len(sockets[c]) :
           /\ j \notin Range(sockets[c][s].onDiscover)
           /\ j \notin Range(sockets[c][s].onRequest)
      /\ \A k \in PCs(c) : pcs[c][k].join # j
      /\ Cardinality(SentTo(c, "discover", RoomId)) = Cardinality(JoinsDone(c))
      /\ (Len(joins[c]) = 1 /\ shares[c] = <<>>) =>
           videoList[c] = <<>> /\ sent[c] = <<>> /\ pcs[c] = <<>>

\* C13 witness: getUserMedia was rejected (navigator.mediaDevices exists),
\* the socket opened by that joinRoom is connected and a message has been
\* delivered to it since, and no peer connection exists.
C13_Witness ==
  \E c \in Clients :
    /\ mediaDevices[c] /\ Len(joins[c]) = 1 /\ joins[c][1].stage = "mediaError"
    /\ recv[c] >= 1 /\ sockets[c][1].connected
    /\ pcs[c] = <<>> /\ videoList[c] = <<>>

\* what of connection k a callback can mutate
ConnState(pc) == [localDescription |-> pc.localDescription,
                  remoteDescription |-> pc.remoteDescription,
                  iceLog |-> pc.iceLog]

\* C14: once leaveRoom has run, a step of a connection made before it (a
\* createOffer or setLocalDescription resolving, ontrack, onicecandidate, a
\* late message), that is a step that is neither a leaveRoom nor a step of
\* a joinRoom invocation, adds no entry to videoList, sends nothing, emits no
\* event and changes no connection's descriptions or candidates.
C14_CallbacksAfterLeaveAreNoOps ==
  [][\A c \in Clients :
       (leaves[c] >= 1 /\ leaves'[c] = leaves[c] /\ joins'[c] = joins[c]) =>
         /\ videoList'[c] = videoList[c]
         /\ sent'[c] = sent[c]
         /\ emitted'[c] = emitted[c]
         /\ \A k \in PCs(c) : ConnState(pcs'[c][k]) = ConnState(pcs[c][k])
    ]_vars

\* C15: a connection made for a request of a peer (to which this side has
\* no connection of its own making) carries the local tracks, and once its
\* negotiation function has run to its end the received offer is its remote
\* description, an answer was sent to the peer and no offer was.
C15_ResponderAnswers ==
  \A c \in Clients : \A k \in PCs(c) :
    (/\ pcs[c][k].via = "request"
     /\ \A k2 \in PCs(c) : pcs[c][k2].peer = pcs[c][k].peer => pcs[c][k2].via = "request") =>
      /\ pcs[c][k].localTracks = {CameraStream(pcs[c][k].join)}
      /\ pcs[c][k].stage = "done" =>
           /\ pcs[c][k].remoteDescription
           /\ SentTo(c, "answer", pcs[c][k].peer) # {}
           /\ SentTo(c, "offer", pcs[c][k].peer) = {}

\* C16: a connection whose transport has reported a disconnected or failed
\* link is closed, so it is no longer among the live connections.
C16_LostLinkClosesConnection ==
  \A c \in Clients : \A k \in PCs(c) :
    pcs[c][k].iceConnectionState \in {"disconnected", "failed"} => pcs[c][k].closed

\* C17: every ice-candidate message that the peer of a connection has sent
\* since the connection was made, while its createOffer or
\* setLocalDescription was pending included, has been handed to that
\* connection by at least one addIceCandidate call.
C17_CandidateWhilePendingIsKept ==
  \A c \in Clients : \A k \in PCs(c) : \A n \in IceFor(c, k) :
    IceCalls(c, k, n) # {}

\* C18: the step in which getDisplayMedia of shareScreen invocation n
\* resolves leaves a local entry of the screen stream in videoList, emits
\* share-started for it once and no media-error, and every peer connection
\* existing then carries the screen stream among its local tracks.
C18_ShareScreenFansOut ==
  [][\A c \in Clients : \A n \in 1..Len(shares[c]) :
       (shares[c][n] = "getDisplayMedia" /\ shares'[c][n] = "done") =>
         /\ \E i \in 1..Len(videoList'[c]) :
              videoList'[c][i] = [id |-> ScreenStream(n).id, muted |-> TRUE,
                                  stream |-> ScreenStream(n), isLocal |-> TRUE]
         /\ Emitted(c, "share-started", ScreenStream(n).id)' =
              Emitted(c, "share-started", ScreenStream(n).id) + 1
         /\ Emitted(c, "media-error", ErrorArg)' = Emitted(c, "media-error", ErrorArg)
         /\ \A k \in 1..Len(pcs'[c]) : ScreenStream(n) \in pcs'[c][k].localTracks
    ]_vars

\* the sockets of instance c that were created and not disconnected
OpenSockets(c) == {s \in 1..Len(sockets[c]) : sockets[c][s].open}

\* C19: at most one socket of an instance is open, and an open socket is
\* the one socket.value refers to.
C19_AtMostOneOpenSocket ==
  \A c \in Clients :
    /\ Cardinality(OpenSockets(c)) <= 1
    /\ \A s \in OpenSockets(c) : socket[c] = s

\* C20: the step in which getUserMedia resolves for a joinRoom invocation
\* that leaveRoom has overtaken (socket.value is null again) leaves
\* videoList as it was, empty, has the acquired stream stopped, and sends no
\* discover.
C20_ResumedJoinAfterLeaveLeavesNoTrace ==
  [][\A c \in Clients : \A j \in 1..Len(joins[c]) :
       (/\ joins[c][j].stage = "getUserMedia"
        /\ joins'[c][j].stage \in {"done", "threw"}
        /\ leaves[c] >= 1 /\ socket[c] = 0 /\ videoList[c] = <<>>) =>
         /\ videoList'[c] = <<>>
         /\ CameraStream(j) \in stopped'[c]
         /\ sent'[c] = sent[c]
    ]_vars

====
